---- MODULE Spec2Model ----
(***************************************************************************)
(* ListInMemory of util/chunk/list.go: a list of chunks with a freelist,   *)
(* a lazily charged memory tracker and (chunk, row) row pointers.          *)
(*                                                                         *)
(* Indices are kept 0-based as in the Go code; At(s, i) reads a slice.     *)
(* The Chunk and memory.Tracker primitives are not part of list.go; they   *)
(* are modelled by the contract list.go uses them under.                   *)
(***************************************************************************)
EXTENDS Integers, Sequences, FiniteSets, TLC

\* ---------------------------------------------------------------- bounds
\* Most rows the list is driven to hold at once.
MaxLen == 3
\* Most rows a list that has only seen AppendRow is driven to hold.
MaxFreshLen == 7
\* Most chunks ever created (allocated by the list or handed to Add).
MaxChunks == 3
\* Most Reset calls.
MaxResets == 2
\* Most rows of a chunk handed to Add, and the capacity of such a chunk.
MaxAddRows == 2
\* Most preAlloc4Row calls.
MaxReserves == 2
\* Most cycles of AppendRow calls closed by a Reset, and most rows of a cycle.
MaxCycles == 3
MaxCycleLen == 7
\* Most fragments of a plan, and most task metas the MPP client returns for
\* one fragment.
MaxFragments == 4
MaxMetas == 2

\* ------------------------------------------------------ program constants
\* NewListInMemory(fieldTypes, initChunkSize, maxChunkSize)
initChunkSize == 2
maxChunkSize == 4

\* Row values; the value of a row is also the number of bytes its
\* variable-length data takes (1 fits the pre-sized estimate, 2 does not).
Rows == {1, 2}

\* The bytes of the data of a row. A slot pre-allocated for a row and not
\* filled yet holds Placeholder(row): as many bytes, no value.
Placeholder(row) == -row

Size(slot) == IF slot < 0 THEN -slot ELSE slot

VARIABLES
    chunks,        \* l.chunks: sequence of chunks
    freelist,      \* l.freelist: sequence of retired chunks
    length,        \* l.length
    consumedIdx,   \* l.consumedIdx (0-based, -1 when nothing is consumed)
    memTracker,    \* bytes consumed as seen by l.memTracker
    nextID,        \* identity (address) the next created chunk gets
    ret,           \* the last call: its name, results and tracker calls
    hist,          \* history: pointers handed out, and what kind of calls ran
    \* planner/core/fragment.go: one GenerateRootMPPTasks call
    fragments,     \* the plan: fragments[f] is the fragment whose
                   \* ExchangeReceiver has f as ChildPf (0 for the root)
    allocTaskID,   \* mppTaskGenerator.allocTaskID
    callStack,     \* the calls of generateMPPTasksForFragment in progress
    recvTasks,     \* recvTasks[f]: Tasks of the receiver with ChildPf f
    senderTasks,   \* senderTasks[f]: Tasks of the ExchangeSender of f
    built,         \* the kv.MPPTask values built so far, in order
    result         \* what GenerateRootMPPTasks returned, and what the
                   \* client answered per fragment

genVars == <<fragments, allocTaskID, callStack, recvTasks, senderTasks, built,
             result>>

vars == <<chunks, freelist, length, consumedIdx, memTracker, nextID, ret, hist,
          fragments, allocTaskID, callStack, recvTasks, senderTasks, built,
          result>>

\* ------------------------------------------------------------ slice helpers
At(s, i) == s[i + 1]

Min(a, b) == IF a < b THEN a ELSE b

Max(a, b) == IF a > b THEN a ELSE b

RECURSIVE SumSeq(_)
SumSeq(s) == IF s = <<>> THEN 0 ELSE Head(s) + SumSeq(Tail(s))

\* The bytes of row data a sequence of slots takes.
DataLen(rows) == SumSeq([i \in 1..Len(rows) |-> Size(rows[i])])

\* ------------------------------------------------------------------ Chunk
\* A chunk: identity, capacity (rows), the rows and the bytes the buffers
\* hold (what MemoryUsage reports); byAdd: it came in through Add.
NumRows(chk) == Len(chk.rows)

Capacity(chk) == chk.capacity

MemoryUsage(chk) == chk.mem

\* chunk.New(fieldTypes, cap, maxChunkSize): empty, buffers pre-sized for
\* cap rows of the estimated size 1.
New(id, cap) ==
    [id |-> id, capacity |-> cap, rows |-> <<>>, mem |-> cap, byAdd |-> FALSE]

\* chunk.Renew(chk, maxChunkSize): a new empty chunk grown from chk.
Renew(id, chk, maxSize) == New(id, Min(2 * Capacity(chk), maxSize))

\* chk.Reset(): no rows, buffers (capacity, footprint) and identity kept.
ChunkReset(chk) == [chk EXCEPT !.rows = <<>>]

\* chk.AppendRow(row): the row is copied in; a buffer too small grows.
ChunkAppendRow(chk, row) ==
    [chk EXCEPT !.rows = Append(@, row),
                !.mem = Max(@, DataLen(chk.rows) + Size(row))]

\* chk.preAlloc(row): a slot sized like row is taken (a buffer too small
\* grows) and not written; the chunk and the index of the slot.
ChunkPreAlloc(chk, row) ==
    [chunk |-> [chk EXCEPT !.rows = Append(@, Placeholder(row)),
                           !.mem = Max(@, DataLen(chk.rows) + Size(row))],
     rowIdx |-> NumRows(chk)]

\* chk.insert(rowIdx, row): the slot's content is overwritten.
ChunkInsert(chk, rowIdx, row) == [chk EXCEPT !.rows[rowIdx + 1] = row]

\* chk.GetRow(idx)
ChunkGetRow(chk, idx) == At(chk.rows, idx)

\* A chunk a caller built to hand to Add.
CallerChunk(id, rows) ==
    [id |-> id, capacity |-> MaxAddRows, rows |-> rows,
     mem |-> Max(MaxAddRows, DataLen(rows)), byAdd |-> TRUE]

\* ------------------------------------------------------------------- list
\* The list as one value, so that the methods are functions of it.
\* calls: the deltas the running method passed to memTracker.Consume.
List ==
    [chunks |-> chunks, freelist |-> freelist, length |-> length,
     consumedIdx |-> consumedIdx, memTracker |-> memTracker,
     nextID |-> nextID, calls |-> <<>>]

\* l.memTracker.Consume(bytes)
Consume(l, bytes) ==
    [l EXCEPT !.memTracker = @ + bytes, !.calls = Append(@, bytes)]

\* l.Len()
ListLen(l) == l.length

\* l.NumChunks()
NumChunks(l) == Len(l.chunks)

\* l.GetChunk(chkIdx)
GetChunk(l, chkIdx) == At(l.chunks, chkIdx)

\* l.NumRowsOfChunk(chkID)
NumRowsOfChunk(l, chkID) == NumRows(GetChunk(l, chkID))

\* l.GetRow(ptr)
GetRow(l, ptr) == ChunkGetRow(At(l.chunks, ptr.ChkIdx), ptr.RowIdx)

RowPtr(chkIdx, rowIdx) == [ChkIdx |-> chkIdx, RowIdx |-> rowIdx]

\* allocChunk that never looks at the freelist.
allocChunkNoReuse(l) ==
    IF Len(l.chunks) > 0
    THEN [l |-> [l EXCEPT !.nextID = @ + 1],
          chk |-> Renew(l.nextID, At(l.chunks, Len(l.chunks) - 1), maxChunkSize)]
    ELSE [l |-> [l EXCEPT !.nextID = @ + 1],
          chk |-> New(l.nextID, initChunkSize)]

\* allocChunk that never grows from the last chunk.
allocChunkNoRenew(l) ==
    IF Len(l.freelist) > 0
    THEN LET lastIdx == Len(l.freelist) - 1
             chk == At(l.freelist, lastIdx)
             l1 == [l EXCEPT !.freelist = SubSeq(@, 1, lastIdx)]
             l2 == Consume(l1, -MemoryUsage(chk))
         IN [l |-> l2, chk |-> [ChunkReset(chk) EXCEPT !.byAdd = FALSE]]
    ELSE [l |-> [l EXCEPT !.nextID = @ + 1],
          chk |-> New(l.nextID, initChunkSize)]

\* allocChunk that pops the freelist without telling the tracker.
allocChunkNoRelease(l) ==
    IF Len(l.freelist) > 0
    THEN LET lastIdx == Len(l.freelist) - 1
             chk == At(l.freelist, lastIdx)
             l1 == [l EXCEPT !.freelist = SubSeq(@, 1, lastIdx)]
         IN [l |-> l1, chk |-> [ChunkReset(chk) EXCEPT !.byAdd = FALSE]]
    ELSE IF Len(l.chunks) > 0
    THEN [l |-> [l EXCEPT !.nextID = @ + 1],
          chk |-> Renew(l.nextID, At(l.chunks, Len(l.chunks) - 1), maxChunkSize)]
    ELSE [l |-> [l EXCEPT !.nextID = @ + 1],
          chk |-> New(l.nextID, initChunkSize)]

\* allocChunk that hands out the last chunk of the freelist and keeps it there.
allocChunkKeepsPooled(l) ==
    IF Len(l.freelist) > 0
    THEN LET lastIdx == Len(l.freelist) - 1
             chk == At(l.freelist, lastIdx)
             l2 == Consume(l, -MemoryUsage(chk))
         IN [l |-> l2, chk |-> [ChunkReset(chk) EXCEPT !.byAdd = FALSE]]
    ELSE IF Len(l.chunks) > 0
    THEN [l |-> [l EXCEPT !.nextID = @ + 1],
          chk |-> Renew(l.nextID, At(l.chunks, Len(l.chunks) - 1), maxChunkSize)]
    ELSE [l |-> [l EXCEPT !.nextID = @ + 1],
          chk |-> New(l.nextID, initChunkSize)]

\* l.allocChunk(): the list after the call and the chunk it returns.
allocChunk(l) ==
    IF Len(l.freelist) > 0
    THEN LET lastIdx == Len(l.freelist) - 1
             chk == At(l.freelist, lastIdx)
             l1 == [l EXCEPT !.freelist = SubSeq(@, 1, lastIdx)]
             l2 == Consume(l1, -MemoryUsage(chk))
         IN [l |-> l2, chk |-> [ChunkReset(chk) EXCEPT !.byAdd = FALSE]]
    ELSE IF Len(l.chunks) > 0
    THEN [l |-> [l EXCEPT !.nextID = @ + 1],
          chk |-> Renew(l.nextID, At(l.chunks, Len(l.chunks) - 1), maxChunkSize)]
    ELSE [l |-> [l EXCEPT !.nextID = @ + 1],
          chk |-> New(l.nextID, initChunkSize)]

\* pushChunk that charges the previous last chunk whether charged or not.
pushChunkChargesAgain(l, chkIdx) ==
    LET a == allocChunk(l)
        l1 == [a.l EXCEPT !.chunks = Append(@, a.chk)]
    IN IF chkIdx >= 0
       THEN [Consume(l1, MemoryUsage(At(l1.chunks, chkIdx)))
                EXCEPT !.consumedIdx = chkIdx]
       ELSE l1

\* The block-selection part of AppendRow and preAlloc4Row once a new chunk
\* is needed (list.go 91-97 and 171-177): the list with the chunk pushed and
\* the previous last chunk charged if it was not.
pushChunk(l, chkIdx) ==
    LET a == allocChunk(l)
        l1 == [a.l EXCEPT !.chunks = Append(@, a.chk)]
    IN IF chkIdx # l1.consumedIdx
       THEN [Consume(l1, MemoryUsage(At(l1.chunks, chkIdx)))
                EXCEPT !.consumedIdx = chkIdx]
       ELSE l1

\* AppendRow reading the row index after the row went in.
AppendRowIdxLate(l, row) ==
    LET chkIdx0 == Len(l.chunks) - 1
        grow == \/ chkIdx0 = -1
                \/ NumRows(At(l.chunks, chkIdx0)) >= Capacity(At(l.chunks, chkIdx0))
                \/ chkIdx0 = l.consumedIdx
        l1 == IF grow THEN pushChunk(l, chkIdx0) ELSE l
        chkIdx == IF grow THEN chkIdx0 + 1 ELSE chkIdx0
        chk == ChunkAppendRow(At(l1.chunks, chkIdx), row)
        l2 == [l1 EXCEPT !.chunks[chkIdx + 1] = chk, !.length = @ + 1]
    IN [l |-> l2, ptr |-> RowPtr(chkIdx, NumRows(chk))]

\* AppendRow starting a new chunk one row early.
AppendRowGrowsEarly(l, row) ==
    LET chkIdx0 == Len(l.chunks) - 1
        grow == \/ chkIdx0 = -1
                \/ NumRows(At(l.chunks, chkIdx0)) + 1 >= Capacity(At(l.chunks, chkIdx0))
                \/ chkIdx0 = l.consumedIdx
        l1 == IF grow THEN pushChunk(l, chkIdx0) ELSE l
        chkIdx == IF grow THEN chkIdx0 + 1 ELSE chkIdx0
        chk == At(l1.chunks, chkIdx)
        rowIdx == NumRows(chk)
        l2 == [l1 EXCEPT !.chunks[chkIdx + 1] = ChunkAppendRow(chk, row),
                         !.length = @ + 1]
    IN [l |-> l2, ptr |-> RowPtr(chkIdx, rowIdx)]

\* l.AppendRow(row): the list after the call and the RowPtr returned.
AppendRow(l, row) ==
    LET chkIdx0 == Len(l.chunks) - 1
        grow == \/ chkIdx0 = -1
                \/ NumRows(At(l.chunks, chkIdx0)) >= Capacity(At(l.chunks, chkIdx0))
                \/ chkIdx0 = l.consumedIdx
        l1 == IF grow THEN pushChunk(l, chkIdx0) ELSE l
        chkIdx == IF grow THEN chkIdx0 + 1 ELSE chkIdx0
        chk == At(l1.chunks, chkIdx)
        rowIdx == NumRows(chk)
        l2 == [l1 EXCEPT !.chunks[chkIdx + 1] = ChunkAppendRow(chk, row),
                         !.length = @ + 1]
    IN [l |-> l2, ptr |-> RowPtr(chkIdx, rowIdx)]

\* Add counting the chunk as one row.
AddCountsOne(l, chk) ==
    IF NumRows(chk) = 0
    THEN [l |-> l, err |-> "empty"]
    ELSE LET chkIdx == Len(l.chunks) - 1
             l1 == IF l.consumedIdx # chkIdx
                   THEN [Consume(l, MemoryUsage(At(l.chunks, chkIdx)))
                            EXCEPT !.consumedIdx = chkIdx]
                   ELSE l
             l2 == Consume(l1, MemoryUsage(chk))
             l3 == [l2 EXCEPT !.consumedIdx = @ + 1,
                              !.chunks = Append(@, chk),
                              !.length = @ + 1]
         IN [l |-> l3, err |-> "nil"]

\* Add charging the last chunk before it looks at the chunk it was given.
AddChecksLate(l, chk) ==
    LET chkIdx == Len(l.chunks) - 1
        l1 == IF l.consumedIdx # chkIdx
              THEN [Consume(l, MemoryUsage(At(l.chunks, chkIdx)))
                       EXCEPT !.consumedIdx = chkIdx]
              ELSE l
    IN IF NumRows(chk) = 0
       THEN [l |-> l1, err |-> "empty"]
       ELSE LET l2 == Consume(l1, MemoryUsage(chk))
                l3 == [l2 EXCEPT !.consumedIdx = @ + 1,
                                 !.chunks = Append(@, chk),
                                 !.length = @ + NumRows(chk)]
            IN [l |-> l3, err |-> "nil"]

\* Add that never charges the chunk that was last.
AddNeverSeals(l, chk) ==
    IF NumRows(chk) = 0
    THEN [l |-> l, err |-> "empty"]
    ELSE LET l2 == Consume(l, MemoryUsage(chk))
             l3 == [l2 EXCEPT !.consumedIdx = Len(l.chunks),
                              !.chunks = Append(@, chk),
                              !.length = @ + NumRows(chk)]
         IN [l |-> l3, err |-> "nil"]

\* l.Add(chk): the list after the call and the error returned.
Add(l, chk) ==
    IF NumRows(chk) = 0
    THEN [l |-> l, err |-> "empty"]
    ELSE LET chkIdx == Len(l.chunks) - 1
             l1 == IF l.consumedIdx # chkIdx
                   THEN [Consume(l, MemoryUsage(At(l.chunks, chkIdx)))
                            EXCEPT !.consumedIdx = chkIdx]
                   ELSE l
             l2 == Consume(l1, MemoryUsage(chk))
             l3 == [l2 EXCEPT !.consumedIdx = @ + 1,
                              !.chunks = Append(@, chk),
                              !.length = @ + NumRows(chk)]
         IN [l |-> l3, err |-> "nil"]

\* Reset without the charge of the last chunk.
ResetNoCharge(l) ==
    [l EXCEPT !.freelist = @ \o l.chunks,
              !.chunks = <<>>,
              !.length = 0,
              !.consumedIdx = -1]

\* Reset that overwrites the freelist with the chunks.
ResetDropsFreelist(l) ==
    LET lastIdx == Len(l.chunks) - 1
        l1 == IF lastIdx # l.consumedIdx
              THEN Consume(l, MemoryUsage(At(l.chunks, lastIdx)))
              ELSE l
    IN [l1 EXCEPT !.freelist = l1.chunks,
                  !.chunks = <<>>,
                  !.length = 0,
                  !.consumedIdx = -1]

\* Reset that leaves consumedIdx where it was.
ResetKeepsConsumedIdx(l) ==
    LET lastIdx == Len(l.chunks) - 1
        l1 == IF lastIdx # l.consumedIdx
              THEN Consume(l, MemoryUsage(At(l.chunks, lastIdx)))
              ELSE l
    IN [l1 EXCEPT !.freelist = @ \o l1.chunks,
                  !.chunks = <<>>,
                  !.length = 0]

\* Reset that empties the chunks without retiring them to the freelist.
ResetForgetsChunks(l) ==
    LET lastIdx == Len(l.chunks) - 1
        l1 == IF lastIdx # l.consumedIdx
              THEN Consume(l, MemoryUsage(At(l.chunks, lastIdx)))
              ELSE l
    IN [l1 EXCEPT !.chunks = <<>>,
                  !.length = 0,
                  !.consumedIdx = -1]

\* l.Reset()
Reset(l) ==
    LET lastIdx == Len(l.chunks) - 1
        l1 == IF lastIdx # l.consumedIdx
              THEN Consume(l, MemoryUsage(At(l.chunks, lastIdx)))
              ELSE l
    IN [l1 EXCEPT !.freelist = @ \o l1.chunks,
                  !.chunks = <<>>,
                  !.length = 0,
                  !.consumedIdx = -1]

\* l.preAlloc4Row(row): the list after the call and the RowPtr returned.
preAlloc4Row(l, row) ==
    LET chkIdx0 == Len(l.chunks) - 1
        grow == \/ chkIdx0 = -1
                \/ NumRows(At(l.chunks, chkIdx0)) >= Capacity(At(l.chunks, chkIdx0))
        l1 == IF grow THEN pushChunk(l, chkIdx0) ELSE l
        chkIdx == IF grow THEN chkIdx0 + 1 ELSE chkIdx0
        p == ChunkPreAlloc(At(l1.chunks, chkIdx), row)
        l2 == [l1 EXCEPT !.chunks[chkIdx + 1] = p.chunk,
                         !.length = @ + 1]
    IN [l |-> l2, ptr |-> RowPtr(chkIdx, p.rowIdx)]

\* Insert that adds the row at the end of the chunk instead of covering.
InsertAppends(l, ptr, row) ==
    [l EXCEPT !.chunks[ptr.ChkIdx + 1] = ChunkAppendRow(@, row)]

\* l.Insert(ptr, row)
Insert(l, ptr, row) ==
    [l EXCEPT !.chunks[ptr.ChkIdx + 1] = ChunkInsert(@, ptr.RowIdx, row)]

\* Walk that goes on after the visitor failed.
RECURSIVE WalkLoopGoesOn(_, _, _, _, _)
WalkLoopGoesOn(l, i, j, visited, failAt) ==
    IF i >= Len(l.chunks)
    THEN [visited |-> visited,
          err |-> IF failAt \in 1..Len(visited) THEN "visit" ELSE "nil"]
    ELSE IF j >= NumRows(At(l.chunks, i))
    THEN WalkLoopGoesOn(l, i + 1, 0, visited, failAt)
    ELSE WalkLoopGoesOn(l, i, j + 1,
                        Append(visited, ChunkGetRow(At(l.chunks, i), j)), failAt)

\* l.Walk(walkFunc), from chunk i, row j on, with the rows visited so far.
\* walkFunc is a visitor that fails on its failAt-th call (0: never).
RECURSIVE WalkLoop(_, _, _, _, _)
WalkLoop(l, i, j, visited, failAt) ==
    IF i >= Len(l.chunks)
    THEN [visited |-> visited, err |-> "nil"]
    ELSE IF j >= NumRows(At(l.chunks, i))
    THEN WalkLoop(l, i + 1, 0, visited, failAt)
    ELSE LET v == Append(visited, ChunkGetRow(At(l.chunks, i), j))
         IN IF Len(v) = failAt
            THEN [visited |-> v, err |-> "visit"]
            ELSE WalkLoop(l, i, j + 1, v, failAt)

Walk(l, failAt) == WalkLoop(l, 0, 0, <<>>, failAt)

\* ------------------------------------------------------------------ state
NoPtr == RowPtr(-1, -1)

\* What a call leaves in ret.
Ret(op, arg, ptr, err, calls, visited) ==
    [op |-> op, arg |-> arg, ptr |-> ptr, err |-> err, calls |-> calls,
     visited |-> visited]

\* The list fields of the state become those of l; the list is no part of
\* the task generator.
Store(l) ==
    /\ chunks' = l.chunks
    /\ freelist' = l.freelist
    /\ length' = l.length
    /\ consumedIdx' = l.consumedIdx
    /\ memTracker' = l.memTracker
    /\ nextID' = l.nextID
    /\ UNCHANGED genVars

\* No GenerateRootMPPTasks call.
NoGen ==
    /\ fragments = <<>>
    /\ allocTaskID = 0
    /\ callStack = <<>>
    /\ recvTasks = <<>>
    /\ senderTasks = <<>>
    /\ built = <<>>
    /\ result = [state |-> "none", tasks |-> <<>>, err |-> "nil", metas |-> <<>>]

\* NewListInMemory
Init ==
    /\ chunks = <<>>
    /\ freelist = <<>>
    /\ length = 0
    /\ consumedIdx = -1
    /\ memTracker = 0
    /\ nextID = 1
    /\ ret = Ret("New", 0, NoPtr, "nil", <<>>, <<>>)
    /\ hist = [ptrs |-> <<>>, reserved |-> <<>>, kind |-> "fresh",
               resets |-> 0, reserves |-> 0]
    /\ NoGen

\* hist.ptrs: the (pointer, row) pairs of the AppendRow calls since the last
\* Reset, in order. hist.reserved: the pointers preAlloc4Row returned since
\* the last Reset that Insert has not filled. hist.kind: "fresh" while no
\* call but AppendRow has changed the list since construction, "append"
\* while none but AppendRow has since the last Reset, "mixed" otherwise.
\* hist.resets, hist.reserves: the Reset and preAlloc4Row calls so far.

\* Sequences over Rows of the lengths a caller may hand to Add.
AddInputs == UNION {[1..n -> Rows] : n \in 0..MaxAddRows}

DoAppendRow ==
    \E row \in Rows :
        /\ length < (IF hist.kind = "fresh" THEN MaxFreshLen ELSE MaxLen)
        /\ LET r == AppendRow(List, row)
           IN /\ r.l.nextID <= MaxChunks + 1
              /\ Store(r.l)
              /\ ret' = Ret("AppendRow", row, r.ptr, "nil", r.l.calls, <<>>)
              /\ hist' = [hist EXCEPT !.ptrs = Append(@, [ptr |-> r.ptr, row |-> row])]

DoAdd ==
    \E rows \in AddInputs :
        /\ length + Len(rows) <= MaxLen
        /\ nextID <= MaxChunks
        /\ LET r == Add(List, CallerChunk(nextID, rows))
           IN /\ Store([r.l EXCEPT !.nextID = @ + 1])
              /\ ret' = Ret("Add", rows, NoPtr, r.err, r.l.calls, <<>>)
              /\ hist' = IF r.err = "nil" THEN [hist EXCEPT !.kind = "mixed"] ELSE hist

\* ret.arg of a Reset: the number of chunks the list held when called.
DoReset ==
    /\ hist.resets < MaxResets
    /\ length <= MaxLen
    /\ LET l == Reset(List)
       IN /\ Store(l)
          /\ ret' = Ret("Reset", Len(chunks), NoPtr, "nil", l.calls, <<>>)
    /\ hist' = [ptrs |-> <<>>, reserved |-> <<>>, kind |-> "append",
                resets |-> hist.resets + 1, reserves |-> hist.reserves]

DoPreAlloc4Row ==
    \E row \in Rows :
        /\ length < MaxLen
        /\ hist.reserves < MaxReserves
        /\ LET r == preAlloc4Row(List, row)
           IN /\ r.l.nextID <= MaxChunks + 1
              /\ Store(r.l)
              /\ ret' = Ret("preAlloc4Row", row, r.ptr, "nil", r.l.calls, <<>>)
              /\ hist' = [hist EXCEPT !.reserved = Append(@, r.ptr),
                                      !.reserves = @ + 1,
                                      !.kind = "mixed"]

\* Insert is paired with preAlloc4Row: it fills, once, a pointer that was
\* reserved, with a row of the shape it was reserved for.
DoInsert ==
    \E i \in 1..Len(hist.reserved) :
        LET ptr == hist.reserved[i]
            row == Size(GetRow(List, ptr))
        IN /\ Store(Insert(List, ptr, row))
           /\ ret' = Ret("Insert", row, ptr, "nil", <<>>, <<>>)
           /\ hist' = [hist EXCEPT !.reserved =
                          SubSeq(@, 1, i - 1) \o SubSeq(@, i + 1, Len(@))]

DoWalk ==
    \E failAt \in 0..length :
        LET w == Walk(List, failAt)
        IN /\ ret' = Ret("Walk", failAt, NoPtr, w.err, <<>>, w.visited)
           /\ UNCHANGED <<chunks, freelist, length, consumedIdx, memTracker,
                          nextID, hist>>
           /\ UNCHANGED genVars

\* Every mutating method, in any order.
Next ==
    \/ DoAppendRow
    \/ DoAdd
    \/ DoReset
    \/ DoPreAlloc4Row
    \/ DoInsert

Spec == Init /\ [][Next]_vars

\* The list driven by AppendRow, Add and Reset only.
NextAppend ==
    \/ DoAppendRow
    \/ DoAdd
    \/ DoReset

SpecAppend == Init /\ [][NextAppend]_vars

\* AppendRow, Add and Reset, and Walk reading the list in between.
NextWalk ==
    \/ DoAppendRow
    \/ DoAdd
    \/ DoReset
    \/ DoWalk

SpecWalk == Init /\ [][NextWalk]_vars

\* A fresh list that only sees AppendRow.
SpecFresh == Init /\ [][DoAppendRow]_vars

\* Cycles of n AppendRow calls and a Reset, n the same in every cycle (it
\* is settled by the first Reset). hist.n: the rows of a cycle. hist.after:
\* per Reset so far, the tracker, the next identity and the chunks of the
\* freelist (identity and footprint) right after it.
InitCycle ==
    /\ chunks = <<>>
    /\ freelist = <<>>
    /\ length = 0
    /\ consumedIdx = -1
    /\ memTracker = 0
    /\ nextID = 1
    /\ ret = Ret("New", 0, NoPtr, "nil", <<>>, <<>>)
    /\ hist = [ptrs |-> <<>>, reserved |-> <<>>, kind |-> "fresh",
               resets |-> 0, reserves |-> 0, n |-> 0, after |-> <<>>]
    /\ NoGen

DoCycleAppendRow ==
    \E row \in Rows :
        /\ hist.resets < MaxCycles
        /\ length < (IF hist.resets = 0 THEN MaxCycleLen ELSE hist.n)
        /\ LET r == AppendRow(List, row)
           IN /\ Store(r.l)
              /\ ret' = Ret("AppendRow", row, r.ptr, "nil", r.l.calls, <<>>)
              /\ UNCHANGED hist

DoCycleReset ==
    /\ hist.resets < MaxCycles
    /\ length > 0
    /\ hist.resets > 0 => length = hist.n
    /\ LET l == Reset(List)
       IN /\ Store(l)
          /\ ret' = Ret("Reset", Len(chunks), NoPtr, "nil", l.calls, <<>>)
          /\ hist' = [hist EXCEPT
                         !.kind = "append",
                         !.resets = @ + 1,
                         !.n = length,
                         !.after = Append(@,
                            [tracker |-> l.memTracker,
                             nextID |-> l.nextID,
                             pool |-> {<<l.freelist[i].id, MemoryUsage(l.freelist[i])>> :
                                          i \in 1..Len(l.freelist)}])]

NextCycle ==
    \/ DoCycleAppendRow
    \/ DoCycleReset

SpecCycle == InitCycle /\ [][NextCycle]_vars

\* ------------------------------------------------- planner/core/fragment.go
\* The plans: trees of up to MaxFragments fragments, fragment 1 the root
\* (the Fragment of the sender given to GenerateRootMPPTasks).
Plans ==
    UNION {{p \in [1..n -> 0..(n - 1)] :
               /\ p[1] = 0
               /\ \A f \in 2..n : p[f] \in 1..(f - 1)} : n \in 1..MaxFragments}

\* f.ExchangeReceivers, each named by its ChildPf, in the order of the slice.
ExchangeReceivers(f) ==
    SelectSeq([c \in 1..Len(fragments) |-> c], LAMBDA c : fragments[c] = f)

\* The loop of constructSinglePhysicalTable over the metas left, with
\* allocTaskID id and the task IDs built so far.
RECURSIVE BuildTasks(_, _, _)
BuildTasks(id, metas, tasks) ==
    IF metas = 0
    THEN [allocTaskID |-> id, tasks |-> tasks]
    ELSE BuildTasks(id + 1, metas - 1, Append(tasks, id + 1))

\* constructSinglePhysicalTable that numbers a task before it increments.
constructSinglePhysicalTableIncLate(id, metas, clientErr) ==
    IF clientErr
    THEN [allocTaskID |-> id, tasks |-> <<>>, err |-> "client"]
    ELSE [allocTaskID |-> id + metas, tasks |-> [k \in 1..metas |-> id + k - 1],
          err |-> "nil"]

\* e.constructSinglePhysicalTable(ctx, tableID, ranges) with allocTaskID id,
\* when the MPP client answers with metas task metas or with an error: the
\* allocTaskID after, the IDs of the tasks returned, the error.
constructSinglePhysicalTable(id, metas, clientErr) ==
    IF clientErr
    THEN [allocTaskID |-> id, tasks |-> <<>>, err |-> "client"]
    ELSE LET b == BuildTasks(id, metas, <<>>)
         IN [allocTaskID |-> b.allocTaskID, tasks |-> b.tasks, err |-> "nil"]

\* GenerateRootMPPTasks has made the generator (allocTaskID 0) and
\* generateMPPTasks has called generateMPPTasksForFragment(s.Fragment).
\* result.metas[f]: the metas the client returned for f (-1: none yet).
InitGen ==
    /\ chunks = <<>>
    /\ freelist = <<>>
    /\ length = 0
    /\ consumedIdx = -1
    /\ memTracker = 0
    /\ nextID = 1
    /\ ret = Ret("New", 0, NoPtr, "nil", <<>>, <<>>)
    /\ hist = [ptrs |-> <<>>, reserved |-> <<>>, kind |-> "fresh",
               resets |-> 0, reserves |-> 0]
    /\ fragments \in Plans
    /\ allocTaskID = 0
    /\ callStack = <<[f |-> 1, r |-> 0]>>
    /\ recvTasks = [f \in 1..Len(fragments) |-> <<>>]
    /\ senderTasks = [f \in 1..Len(fragments) |-> <<>>]
    /\ built = <<>>
    /\ result = [state |-> "running", tasks |-> <<>>, err |-> "nil",
                 metas |-> [f \in 1..Len(fragments) |-> -1]]

\* generateMPPTasksForFragment(f), the loop over f.ExchangeReceivers: the
\* call for the next receiver's ChildPf (r receivers are done).
GenDescend ==
    /\ callStack # <<>>
    /\ LET top == callStack[Len(callStack)]
           recvs == ExchangeReceivers(top.f)
       IN /\ top.r < Len(recvs)
          /\ callStack' = Append(callStack, [f |-> recvs[top.r + 1], r |-> 0])
    /\ UNCHANGED <<fragments, allocTaskID, recvTasks, senderTasks, built, result>>
    /\ UNCHANGED <<chunks, freelist, length, consumedIdx, memTracker, nextID,
                   ret, hist>>

\* generateMPPTasksForFragment(f) after the loop: the tasks of f are
\* constructed and the call returns. An error returns through every caller
\* (each assigns the nil result to its receiver's Tasks) and
\* generateMPPTasks returns nil; a return from the root call lets
\* generateMPPTasks set the Tasks of the root sender to the task of ID -1.
GenConstruct ==
    /\ callStack # <<>>
    /\ \E metas \in 0..MaxMetas : \E clientErr \in BOOLEAN :
          LET depth == Len(callStack)
              top == callStack[depth]
              recvs == ExchangeReceivers(top.f)
              c == constructSinglePhysicalTable(allocTaskID, metas, clientErr)
              err == IF c.err # "nil" THEN c.err
                     ELSE IF Len(c.tasks) = 0 THEN "cannot find mpp task"
                     ELSE "nil"
              calling == {callStack[i].f : i \in 2..depth}
              children == {recvs[i] : i \in 1..Len(recvs)}
          IN /\ top.r = Len(recvs)
             /\ clientErr => metas = 0
             /\ allocTaskID' = c.allocTaskID
             /\ built' = built \o [k \in 1..Len(c.tasks) |->
                                      [ID |-> c.tasks[k], frag |-> top.f]]
             /\ IF err # "nil"
                THEN /\ callStack' = <<>>
                     /\ recvTasks' = [f \in 1..Len(fragments) |->
                                         IF f \in calling THEN <<>> ELSE recvTasks[f]]
                     /\ senderTasks' = senderTasks
                     /\ result' = [state |-> "err", tasks |-> <<>>, err |-> err,
                                   metas |-> [result.metas EXCEPT ![top.f] =
                                                 IF clientErr THEN -1 ELSE metas]]
                ELSE /\ callStack' =
                          IF depth = 1 THEN <<>>
                          ELSE [SubSeq(callStack, 1, depth - 1)
                                   EXCEPT ![depth - 1].r = @ + 1]
                     /\ recvTasks' = IF depth = 1 THEN recvTasks
                                     ELSE [recvTasks EXCEPT ![top.f] = c.tasks]
                     /\ senderTasks' = [f \in 1..Len(fragments) |->
                                           IF f \in children THEN c.tasks
                                           ELSE IF f = 1 /\ depth = 1 THEN <<-1>>
                                           ELSE senderTasks[f]]
                     /\ result' = [state |-> IF depth = 1 THEN "ok" ELSE "running",
                                   tasks |-> IF depth = 1 THEN c.tasks ELSE <<>>,
                                   err |-> "nil",
                                   metas |-> [result.metas EXCEPT ![top.f] = metas]]
    /\ UNCHANGED fragments
    /\ UNCHANGED <<chunks, freelist, length, consumedIdx, memTracker, nextID,
                   ret, hist>>

NextGen ==
    \/ GenDescend
    \/ GenConstruct

SpecGen == InitGen /\ [][NextGen]_vars

\* ----------------------------------------------------------------- claims
\* The pointers of the list: every slot of every chunk.
ValidPtr(l, ptr) ==
    /\ ptr.ChkIdx \in 0..(NumChunks(l) - 1)
    /\ ptr.RowIdx \in 0..(NumRowsOfChunk(l, ptr.ChkIdx) - 1)

\* The rows of the chunks before chunk chkIdx.
RowsBefore(l, chkIdx) ==
    SumSeq([i \in 1..chkIdx |-> NumRowsOfChunk(l, i - 1)])

\* C1: in every state reached by AppendRow, Add, Reset and preAlloc4Row
\* (and Insert), Len() is the sum of NumRowsOfChunk(i) over the chunks, and
\* while only AppendRow has been called on the new list Len() is the number
\* of those calls.
C1_LenIsSumOfChunkRows ==
    /\ ListLen(List) = RowsBefore(List, NumChunks(List))
    /\ hist.kind = "fresh" => ListLen(List) = Len(hist.ptrs)

C1_Witness ==
    /\ hist.kind = "mixed"
    /\ hist.resets >= 1
    /\ hist.reserves >= 1
    /\ NumChunks(List) >= 2
    /\ ListLen(List) = MaxLen
    /\ \E i \in 1..Len(chunks) : chunks[i].byAdd /\ NumRows(chunks[i]) >= 2

\* C2: every pointer AppendRow returned since the last Reset still reads
\* the row it was returned for, whatever was appended or added since.
C2_PointersReadBack ==
    \A i \in 1..Len(hist.ptrs) :
        /\ ValidPtr(List, hist.ptrs[i].ptr)
        /\ GetRow(List, hist.ptrs[i].ptr) = hist.ptrs[i].row

C2_Witness ==
    /\ Len(hist.ptrs) >= 2
    /\ hist.ptrs[1].row # hist.ptrs[2].row
    /\ hist.ptrs[1].ptr.ChkIdx = 0
    /\ hist.ptrs[2].ptr.ChkIdx = 2
    /\ NumChunks(List) = 3
    /\ chunks[2].byAdd

\* C3: an Add of a chunk without rows returns the error and leaves the
\* chunks, the freelist, Len(), consumedIdx and the tracker as they were,
\* without a call to the tracker.
C3_AddEmptyChangesNothing ==
    [][(ret'.op = "Add" /\ ret'.arg = <<>>) =>
          /\ ret'.err = "empty"
          /\ ret'.calls = <<>>
          /\ UNCHANGED <<chunks, freelist, length, consumedIdx, memTracker>>]_vars

C3_Witness ==
    /\ ret.op = "Add"
    /\ ret.err = "empty"
    /\ NumChunks(List) >= 1
    /\ consumedIdx # NumChunks(List) - 1
    /\ freelist # <<>>

\* The identities of the chunks of a slice.
IDs(s) == {s[i].id : i \in 1..Len(s)}

\* C4: an AppendRow that starts a new chunk takes it from the freelist
\* whenever the freelist is not empty (the chunk leaves the freelist, no
\* chunk is created); only with an empty freelist is the chunk a new one,
\* renewed from the last chunk or of initChunkSize when there is none. While
\* only AppendRow has been called since the last Reset, Len() is the number
\* of those calls.
C4_NewChunksComeFromFreelist ==
    [][ret'.op = "AppendRow" =>
          /\ hist'.kind = "append" => length' = Len(hist'.ptrs)
          /\ Len(chunks') > Len(chunks) =>
                LET new == chunks'[Len(chunks')]
                IN IF freelist # <<>>
                   THEN /\ new.id \in IDs(freelist)
                        /\ IDs(freelist') = IDs(freelist) \ {new.id}
                        /\ Len(freelist') = Len(freelist) - 1
                        /\ nextID' = nextID
                   ELSE /\ new.id \notin IDs(chunks)
                        /\ freelist' = <<>>
                        /\ nextID' = nextID + 1
                        /\ Capacity(new) =
                              IF chunks = <<>>
                              THEN initChunkSize
                              ELSE Capacity(Renew(nextID, chunks[Len(chunks)],
                                                  maxChunkSize))]_vars

C4_Witness ==
    /\ hist.kind = "append"
    /\ hist.resets = 1
    /\ ret.op = "AppendRow"
    /\ ret.ptr = RowPtr(1, 0)
    /\ freelist = <<>>
    /\ chunks[1].id = 1
    /\ chunks[2].id = 2
    /\ length = 3

\* C5: on a new list that only sees AppendRow the first chunk has capacity
\* initChunkSize and each later one min(2 x the capacity before it,
\* maxChunkSize); with 2 and 4, six rows make two chunks of 2 and 4 rows
\* and the seventh row starts a third chunk of capacity 4.
C5_CapacitiesDouble ==
    hist.kind = "fresh" =>
        /\ \A i \in 1..Len(chunks) :
              Capacity(chunks[i]) =
                 IF i = 1 THEN initChunkSize
                 ELSE Min(2 * Capacity(chunks[i - 1]), maxChunkSize)
        /\ length = 6 =>
              /\ NumChunks(List) = 2
              /\ NumRowsOfChunk(List, 0) = 2
              /\ NumRowsOfChunk(List, 1) = 4
        /\ length = 7 =>
              /\ NumChunks(List) = 3
              /\ Capacity(GetChunk(List, 2)) = 4
              /\ NumRowsOfChunk(List, 2) = 1

C5_Witness ==
    /\ hist.kind = "fresh"
    /\ Len(hist.ptrs) = 7
    /\ NumChunks(List) = 3

\* The pointer of the n-th row of the list, counting by chunk, then by row.
NthPtr(l, n) ==
    CHOOSE p \in [ChkIdx : 0..NumChunks(l), RowIdx : 0..ListLen(l)] :
        /\ ValidPtr(l, p)
        /\ RowsBefore(l, p.ChkIdx) + p.RowIdx + 1 = n

\* C6: a Walk whose visitor never fails visits Len() rows and returns no
\* error; one whose visitor fails on its k-th row visits k rows and returns
\* the failure; the n-th row visited is the n-th row by chunk index, then
\* row index.
C6_WalkVisitsInOrder ==
    ret.op = "Walk" =>
        /\ Len(ret.visited) = IF ret.arg = 0 THEN ListLen(List) ELSE ret.arg
        /\ ret.err = IF ret.arg = 0 THEN "nil" ELSE "visit"
        /\ \A n \in 1..Len(ret.visited) :
              ret.visited[n] = GetRow(List, NthPtr(List, n))

C6_Witness ==
    /\ ret.op = "Walk"
    /\ ret.err = "visit"
    /\ ret.arg = 2
    /\ ret.visited[1] # ret.visited[2]
    /\ NumChunks(List) = 3
    /\ ListLen(List) = 3

\* C7: from any state preAlloc4Row returns the pointer AppendRow would
\* return, and leaves as many chunks and the consumedIdx AppendRow would.
C7_ReserveSelectsLikeAppend ==
    [][ret'.op = "preAlloc4Row" =>
          LET a == AppendRow(List, ret'.arg)
          IN /\ ret'.ptr = a.ptr
             /\ Len(chunks') = Len(a.l.chunks)
             /\ consumedIdx' = a.l.consumedIdx]_vars

\* The bytes the chunks of a slice report.
MemOf(s) == SumSeq([i \in 1..Len(s) |-> MemoryUsage(s[i])])

\* The chunks up to consumedIdx.
Consumed == SubSeq(chunks, 1, consumedIdx + 1)

C9_AllButLastFull ==
    \A i \in 1..(Len(chunks) - 1) :
        chunks[i].byAdd \/ NumRows(chunks[i]) = Capacity(chunks[i])

\* C9: a chunk that is not the last holds as many rows as its capacity,
\* unless it came in through Add or the chunk after it did.
C9_AllButLastFullOrCutByAdd ==
    \A i \in 1..(Len(chunks) - 1) :
        \/ NumRows(chunks[i]) = Capacity(chunks[i])
        \/ chunks[i].byAdd
        \/ chunks[i + 1].byAdd

C9_Witness ==
    /\ Len(chunks) = 2
    /\ ~chunks[1].byAdd
    /\ ~chunks[2].byAdd
    /\ NumRows(chunks[1]) = Capacity(chunks[1])
    /\ hist.resets >= 1

\* C10: Reset leaves Len() 0, no chunk and consumedIdx -1, and the freelist
\* is the one before followed by the chunks before, in order; on a list
\* without chunks it makes no call to the tracker.
C10_ResetRetiresAllChunks ==
    [][ret'.op = "Reset" =>
          /\ length' = 0
          /\ chunks' = <<>>
          /\ consumedIdx' = -1
          /\ freelist' = freelist \o chunks
          /\ chunks = <<>> => ret'.calls = <<>> /\ memTracker' = memTracker]_vars

C10_Witness ==
    /\ ret.op = "Reset"
    /\ ret.arg >= 2
    /\ Len(freelist) > ret.arg
    /\ length = 0

\* C11: an Insert of row r at a pointer p that preAlloc4Row returned since
\* the last Reset makes GetRow(p) return r, where the reserved slot was,
\* and leaves Len(), the number of chunks and the number of rows of every
\* chunk as they were.
C11_InsertFillsReserved ==
    [][ret'.op = "Insert" =>
          /\ ValidPtr(List, ret'.ptr)
          /\ GetRow(List, ret'.ptr) = Placeholder(ret'.arg)
          /\ ChunkGetRow(At(chunks', ret'.ptr.ChkIdx), ret'.ptr.RowIdx) = ret'.arg
          /\ length' = length
          /\ Len(chunks') = Len(chunks)
          /\ \A i \in 1..Len(chunks) : NumRows(chunks'[i]) = NumRows(chunks[i])]_vars

C11_Witness ==
    /\ ret.op = "Insert"
    /\ ret.ptr = RowPtr(0, 1)
    /\ ret.arg = 2
    /\ NumChunks(List) = 2
    /\ chunks[2].byAdd
    /\ Len(hist.reserved) = 1

\* The identities of the chunks that are charged to the tracker: those up to
\* index ci of cs and those of the freelist fl.
ChargedIDs(cs, ci, fl) == IDs(SubSeq(cs, 1, ci + 1)) \cup IDs(fl)

\* The chunks of a slice with an identity of ids.
WithIDs(s, ids) == SelectSeq(s, LAMBDA c : c.id \in ids)

\* The positions of the charges, and of the releases, in tracker calls.
Charges(calls) == {i \in 1..Len(calls) : calls[i] > 0}

Releases(calls) == {i \in 1..Len(calls) : calls[i] < 0}

\* C12: over any interleaving of AppendRow, Add, preAlloc4Row and Reset
\* (and Insert) a chunk is charged exactly once between entering the chunks
\* and being taken from the freelist again. Step by step: the charges of a
\* call are one per chunk that becomes charged, of its footprint; a chunk
\* that is charged gets no further charge and stays charged until it is
\* popped from the freelist, with one release; whatever is in the freelist
\* after the call was charged before it or by it.
C12_ChargedOncePerGeneration ==
    [][LET before == ChargedIDs(chunks, consumedIdx, freelist)
           after == ChargedIDs(chunks', consumedIdx', freelist')
           sealed == after \ before
           released == before \ after
       IN /\ Cardinality(Charges(ret'.calls)) = Cardinality(sealed)
          /\ SumSeq(SelectSeq(ret'.calls, LAMBDA c : c > 0))
                = MemOf(WithIDs(chunks' \o freelist', sealed))
          /\ Cardinality(Releases(ret'.calls)) = Cardinality(released)
          /\ released \subseteq IDs(freelist) \ IDs(freelist')
          /\ released \subseteq IDs(chunks') \ IDs(SubSeq(chunks', 1, consumedIdx' + 1))
          /\ IDs(freelist') \subseteq
                IDs(freelist) \cup IDs(SubSeq(chunks, 1, consumedIdx + 1)) \cup sealed
          /\ Len(ret'.calls) = Cardinality(sealed) + Cardinality(released)]_vars

C12_Witness ==
    /\ ret.op = "AppendRow"
    /\ Len(ret.calls) = 2
    /\ ret.calls[1] < 0
    /\ ret.calls[2] > 0
    /\ hist.resets = 2
    /\ hist.reserves >= 1
    /\ freelist # <<>>

\* C13: neither AppendRow nor preAlloc4Row changes the number of rows of a
\* chunk at an index up to consumedIdx; when the last chunk is charged the
\* row goes to a chunk pushed for it.
C13_ChargedChunksNotAppended ==
    [][ret'.op \in {"AppendRow", "preAlloc4Row"} =>
          /\ \A i \in 1..(consumedIdx + 1) :
                NumRows(chunks'[i]) = NumRows(chunks[i])
          /\ (chunks # <<>> /\ consumedIdx = Len(chunks) - 1) =>
                /\ Len(chunks') = Len(chunks) + 1
                /\ ret'.ptr = RowPtr(Len(chunks), 0)]_vars

\* C14: driven by AppendRow, Add and Reset, the tracker always holds the
\* footprints of chunks[0..consumedIdx] plus those of the freelist and is
\* never negative; a chunk keeps the footprint it was charged with for as
\* long as it is charged, and the release of a pop is the footprint of the
\* chunk popped, so what is released is what was charged.
C14_ReleaseUndoesCharge ==
    /\ [](/\ memTracker = MemOf(SubSeq(chunks, 1, consumedIdx + 1)) + MemOf(freelist)
          /\ memTracker >= 0)
    /\ [][LET before == ChargedIDs(chunks, consumedIdx, freelist)
              after == ChargedIDs(chunks', consumedIdx', freelist')
          IN /\ \A id \in before \cap after :
                   MemOf(WithIDs(chunks' \o freelist', {id}))
                      = MemOf(WithIDs(chunks \o freelist, {id}))
             /\ SumSeq(SelectSeq(ret'.calls, LAMBDA c : c < 0))
                   = 0 - MemOf(WithIDs(freelist, before \ after))
             /\ memTracker' = memTracker + SumSeq(ret'.calls)]_vars

C14_Witness ==
    /\ ret.op = "AppendRow"
    /\ ret.calls # <<>>
    /\ ret.calls[1] < 0 - initChunkSize
    /\ hist.resets = 2
    /\ freelist # <<>>
    /\ memTracker > MemOf(freelist)

\* C15: in every state consumedIdx is between -1 and the index of the last
\* chunk and at least the index of the chunk before the last (every chunk
\* but possibly the last is charged); it is -1 when there is no chunk.
C15_ConsumedIdxInRange ==
    /\ consumedIdx \in -1..(Len(chunks) - 1)
    /\ consumedIdx >= Len(chunks) - 2
    /\ chunks = <<>> => consumedIdx = -1

C15_Witness ==
    /\ Len(chunks) = 3
    /\ consumedIdx = 1
    /\ hist.resets >= 1
    /\ hist.reserves >= 1
    /\ \E i \in 1..Len(chunks) : chunks[i].byAdd

\* C16: an Add of a chunk b with rows, from any state, makes b the last
\* chunk after the chunks there were, unchanged; NumChunks() grows by one
\* and Len() by the rows of b; consumedIdx becomes the index of b; the
\* freelist stays; the tracker grows by the footprint of b, plus that of
\* the chunk that was last exactly when that chunk was not charged.
C16_AddAppendsAndCharges ==
    [][(ret'.op = "Add" /\ ret'.err = "nil") =>
          LET b == CallerChunk(nextID, ret'.arg)
              lastIdx == Len(chunks) - 1
              seal == IF chunks # <<>> /\ consumedIdx # lastIdx
                      THEN <<MemoryUsage(At(chunks, lastIdx))>>
                      ELSE <<>>
          IN /\ chunks' = Append(chunks, b)
             /\ Len(chunks') = Len(chunks) + 1
             /\ length' = length + NumRows(b)
             /\ consumedIdx' = Len(chunks') - 1
             /\ freelist' = freelist
             /\ ret'.calls = seal \o <<MemoryUsage(b)>>
             /\ memTracker' = memTracker + SumSeq(seal) + MemoryUsage(b)]_vars

C16_Witness ==
    /\ ret.op = "Add"
    /\ ret.err = "nil"
    /\ Len(ret.calls) = 2
    /\ ret.arg = <<1, 2>>
    /\ Len(chunks) = 2
    /\ freelist # <<>>

\* C17: with Add only ever given a chunk the list does not hold, no chunk
\* is at two places of the chunks and the freelist taken together, and a
\* call keeps every chunk the list held, in the chunks or in the freelist;
\* what it holds more is the one chunk created or added by the call.
C17_ChunksHeldOnce ==
    /\ [](Cardinality(IDs(chunks \o freelist)) = Len(chunks) + Len(freelist))
    /\ [][/\ IDs(chunks \o freelist) \subseteq IDs(chunks' \o freelist')
          /\ IDs(chunks' \o freelist') \ IDs(chunks \o freelist) \subseteq {nextID}
          /\ ret'.op \in {"Reset", "Insert"} =>
                IDs(chunks' \o freelist') = IDs(chunks \o freelist)]_vars

C17_Witness ==
    /\ Len(chunks) = 2
    /\ Len(freelist) = 1
    /\ hist.resets = 2
    /\ chunks[1].id = MaxChunks
    /\ chunks[2].id = 1
    /\ ret.op = "preAlloc4Row"

\* The sum of the footprints of a set of (identity, footprint) pairs.
RECURSIVE PoolMem(_)
PoolMem(pool) ==
    IF pool = {} THEN 0
    ELSE LET c == CHOOSE c \in pool : TRUE
         IN c[2] + PoolMem(pool \ {c})

\* C18 as claimed: in cycles of n AppendRow calls and a Reset no chunk is
\* created after the first cycle, the chunks and the freelist together hold
\* as many chunks as at the end of the first cycle, and the tracker is the
\* same right after every Reset.
C18_CyclesReuseSameTracker ==
    hist.resets >= 1 =>
        /\ nextID = hist.after[1].nextID
        /\ Len(chunks) + Len(freelist) = Cardinality(hist.after[1].pool)
        /\ \A i \in 1..Len(hist.after) :
              hist.after[i].tracker = hist.after[1].tracker

\* C18: in cycles of n AppendRow calls and a Reset no chunk is created
\* after the first cycle and the chunks and the freelist together hold the
\* chunks of the end of the first cycle; right after every Reset the
\* tracker is the sum of the footprints of the chunks of the freelist,
\* which is the same as after an earlier Reset when no footprint grew
\* and larger when one did.
C18_CyclesReuseChunks ==
    hist.resets >= 1 =>
        /\ nextID = hist.after[1].nextID
        /\ Len(chunks) + Len(freelist) = Cardinality(hist.after[1].pool)
        /\ IDs(chunks \o freelist) = {c[1] : c \in hist.after[1].pool}
        /\ \A i \in 1..Len(hist.after) :
              /\ hist.after[i].tracker = PoolMem(hist.after[i].pool)
              /\ {c[1] : c \in hist.after[i].pool} = {c[1] : c \in hist.after[1].pool}
              /\ \A j \in 1..(i - 1) :
                    /\ \A c \in hist.after[j].pool : \A d \in hist.after[i].pool :
                          c[1] = d[1] => c[2] <= d[2]
                    /\ hist.after[j].tracker <= hist.after[i].tracker
                    /\ hist.after[j].pool = hist.after[i].pool <=>
                          hist.after[j].tracker = hist.after[i].tracker

C18_Witness ==
    /\ hist.resets = MaxCycles
    /\ hist.n = MaxCycleLen
    /\ Cardinality(hist.after[1].pool) = 3
    /\ hist.after[1].tracker < hist.after[2].tracker
    /\ hist.after[2].tracker = hist.after[3].tracker
    /\ ret.op = "Reset"

\* Fragment a is reached from fragment f through ExchangeReceivers.
RECURSIVE Below(_, _)
Below(a, f) ==
    /\ fragments[a] # 0
    /\ fragments[a] = f \/ Below(fragments[a], f)

\* The IDs of the tasks built for fragment f, in order.
IDsBuiltFor(f) ==
    LET forF == SelectSeq(built, LAMBDA t : t.frag = f)
    IN [k \in 1..Len(forF) |-> forF[k].ID]

\* C19: within one GenerateRootMPPTasks call the k-th task built has ID k
\* (distinct, positive, consecutive from 1), the tasks of a fragment reached
\* through the ExchangeReceivers of another have smaller IDs than the tasks
\* of that other, and the tasks returned on success are those of the root
\* fragment, every fragment having tasks; a fragment for which no task is
\* built makes the generation end with an error and no tasks.
C19_TaskIDsCountUp ==
    /\ allocTaskID = Len(built)
    /\ \A k \in 1..Len(built) : built[k].ID = k
    /\ \A a \in 1..Len(built) : \A b \in 1..Len(built) :
          Below(built[a].frag, built[b].frag) => built[a].ID < built[b].ID
    /\ \A f \in 1..Len(fragments) :
          /\ result.metas[f] >= 0 => Len(IDsBuiltFor(f)) = result.metas[f]
          /\ result.metas[f] = 0 =>
                /\ result.state = "err"
                /\ result.err = "cannot find mpp task"
                /\ result.tasks = <<>>
                /\ callStack = <<>>
    /\ result.state = "err" => result.tasks = <<>> /\ callStack = <<>>
    /\ result.state = "ok" =>
          /\ result.tasks = IDsBuiltFor(1)
          /\ \A f \in 1..Len(fragments) : IDsBuiltFor(f) # <<>>
          /\ \A f \in 2..Len(fragments) :
                /\ recvTasks[f] = IDsBuiltFor(f)
                /\ senderTasks[f] = IDsBuiltFor(fragments[f])

C19_Witness ==
    /\ result.state = "ok"
    /\ Len(fragments) = MaxFragments
    /\ fragments[3] = 2
    /\ fragments[4] = 1
    /\ Len(built) > MaxFragments
    /\ result.tasks = <<Len(built) - 1, Len(built)>>

====
